---- MODULE Spec2Model ----
(***************************************************************************)
(* A model of bell's HTTPClient (components/spotify/cspot/bell/src/        *)
(* HTTPClient.cpp): the redirect-following execute loop, the line-oriented *)
(* header parser and the content-length / chunked / streaming body reader, *)
(* over a transport that hands the response bytes out in arbitrary fills.  *)
(*                                                                         *)
(* Bytes are one-character strings; "CR", "LF", "TAB" and "NUL" stand for  *)
(* the control characters.  A C string is a sequence of bytes.             *)
(***************************************************************************)
EXTENDS Integers, Sequences, FiniteSets, TLC

\* capacity of the receive buffer (scaled down: every response below is longer)
BUF_SIZE == 24
\* legs one execute call may start in the model (maxRedirects < 0 is unlimited)
MaxLegs == 3
\* legs on which the transport may cut the response into fills of any size and
\* close early; on later legs every read returns as many bytes as fit
SplitLegs == 1
\* after the first read of a leg, a read that returns less than fits returns at
\* most this many bytes (the first read returns any number of bytes)
MaxShortFill == 3
\* the largest maxRedirects a request carries in the model (-1 is unlimited)
MaxRedirectsBound == 1
\* length of the serialized request handed to the transport's write
ReqLen == 2
\* the largest toRead a caller passes to read() directly
MaxToRead == 2

(***************************************************************************)
(* Text helpers                                                            *)
(***************************************************************************)
CRLF == <<"CR", "LF">>

Drop(s, n) == SubSeq(s, n + 1, Len(s))

Min(a, b) == IF a < b THEN a ELSE b

UpperLetters == <<"A", "B", "C", "D", "E", "F", "G", "H", "I", "J", "K", "L", "M",
                  "N", "O", "P", "Q", "R", "S", "T", "U", "V", "W", "X", "Y", "Z">>

LowerLetters == <<"a", "b", "c", "d", "e", "f", "g", "h", "i", "j", "k", "l", "m",
                  "n", "o", "p", "q", "r", "s", "t", "u", "v", "w", "x", "y", "z">>

\* tolower(3)
tolower(c) ==
    IF \E i \in 1..26 : UpperLetters[i] = c
    THEN LowerLetters[CHOOSE i \in 1..26 : UpperLetters[i] = c]
    ELSE c

\* isspace(3), as strtol uses it to skip leading white space
isspace(c) == c \in {" ", "TAB", "LF", "CR"}

HexLower == <<"0", "1", "2", "3", "4", "5", "6", "7", "8", "9", "a", "b", "c", "d", "e", "f">>

HexUpper == <<"0", "1", "2", "3", "4", "5", "6", "7", "8", "9", "A", "B", "C", "D", "E", "F">>

IsDigit(c, base) == \E i \in 1..base : HexLower[i] = c \/ HexUpper[i] = c

DigitVal(c) == (CHOOSE i \in 1..16 : HexLower[i] = c \/ HexUpper[i] = c) - 1

RECURSIVE SkipWs(_, _)
SkipWs(s, i) == IF i <= Len(s) /\ isspace(s[i]) THEN SkipWs(s, i + 1) ELSE i

RECURSIVE Digits(_, _, _, _)
Digits(s, i, base, acc) ==
    IF i <= Len(s) /\ IsDigit(s[i], base)
    THEN Digits(s, i + 1, base, acc * base + DigitVal(s[i]))
    ELSE [val |-> acc, end |-> i]

\* strtol(s, &end, base) on a C string: leading white space is skipped, then the
\* digits are read; end is the number of bytes consumed, 0 (end = s) when there
\* is no digit.  conv tells whether a conversion took place (std::stoul throws
\* when it did not).  No sign and no "0x" prefix occurs in the modelled responses.
strtol(s, base) ==
    LET i == SkipWs(s, 1)
        d == Digits(s, i, base, 0)
    IN  IF d.end = i THEN [val |-> 0, end |-> 0, conv |-> FALSE]
                     ELSE [val |-> d.val, end |-> d.end - 1, conv |-> TRUE]

\* strncmp(s, p, strlen(p)) == 0
HasPrefix(s, p) == Len(s) >= Len(p) /\ SubSeq(s, 1, Len(p)) = p

\* a slip: strncmp in place of strncasecmp
NameMatchesExactly(header, name) == HasPrefix(header, name)

\* the comparison of readHeader: strncasecmp(header, name, strlen(name)) == 0
NameMatches(header, name) ==
    /\ Len(header) >= Len(name)
    /\ \A i \in 1..Len(name) : tolower(header[i]) = tolower(name[i])

RECURSIVE SkipSpaces(_)
SkipSpaces(s) == IF s # <<>> /\ Head(s) = " " THEN SkipSpaces(Tail(s)) ELSE s

\* HTTPClient::readHeader: on a match the cursor moves past the name and the
\* blanks that follow it
readHeader(header, name) ==
    IF NameMatches(header, name)
    THEN [ok |-> TRUE, rest |-> SkipSpaces(Drop(header, Len(name)))]
    ELSE [ok |-> FALSE, rest |-> header]

\* strchr(s, c) on a C string: the index of the first c, 0 when there is none
RECURSIVE FindChar(_, _, _)
FindChar(s, c, i) ==
    IF i > Len(s) THEN 0
    ELSE IF s[i] = c THEN i
    ELSE FindChar(s, c, i + 1)

strchr(s, c) == FindChar(s, c, 1)

\* strstr(s, "\r\n") on a C string: the index of the first CR LF, 0 when none
RECURSIVE FindCRLF(_, _)
FindCRLF(s, i) ==
    IF i >= Len(s) THEN 0
    ELSE IF s[i] = "CR" /\ s[i + 1] = "LF" THEN i
    ELSE FindCRLF(s, i + 1)

strstrCRLF(s) == FindCRLF(s, 1)

RECURSIVE LowerSeq(_)
LowerSeq(s) == IF s = <<>> THEN <<>> ELSE <<tolower(Head(s))>> \o LowerSeq(Tail(s))

(***************************************************************************)
(* size_t arithmetic.  size_t is 32 bits wide on the ESP32; a value is     *)
(* held in two's complement, so 0 - 1 is -1, which stands for 2^32 - 1.    *)
(***************************************************************************)
ULess(a, b) == IF (a < 0) = (b < 0) THEN a < b ELSE b < 0

UMin(a, b) == IF ULess(a, b) THEN a ELSE b

(***************************************************************************)
(* The responses the server may send                                       *)
(***************************************************************************)
StatusOK == <<"H", "T", "T", "P", "/", "1", ".", "1", " ", "2", "0", "0", " ", "O", "K">>

StatusFound == <<"H", "T", "T", "P", "/", "1", ".", "1", " ", "3", "0", "2", " ", "F", "o", "u", "n", "d">>

HdrContentLength3 == <<"C", "o", "n", "t", "e", "n", "t", "-", "L", "e", "n", "g", "t", "h", ":", " ", "3">>

HdrContentType == <<"C", "o", "n", "t", "e", "n", "t", "-", "T", "y", "p", "e", ":", " ", "a", "/", "b">>

HdrChunked == <<"T", "r", "a", "n", "s", "f", "e", "r", "-", "E", "n", "c", "o", "d", "i", "n", "g", ":",
                " ", "c", "h", "u", "n", "k", "e", "d">>

HdrLocation == <<"L", "o", "c", "a", "t", "i", "o", "n", ":", " ", "h", "t", "t", "p", ":", "/", "/", "h", "/">>

HdrXId == <<"X", "-", "I", "d", ":", " ", "7">>

\* Content-Length: 3 and a body of exactly three bytes
RespLength ==
    [kind |-> "length",
     head |-> StatusOK \o CRLF \o HdrContentType \o CRLF \o HdrContentLength3 \o CRLF \o CRLF,
     body |-> <<"a", "b", "c">>,
     payload |-> <<"a", "b", "c">>]

\* a well-formed chunked body: 2 "Wi", 1 "k", 0
RespChunked ==
    [kind |-> "chunked",
     head |-> StatusOK \o CRLF \o HdrChunked \o CRLF \o CRLF,
     body |-> <<"2", "CR", "LF", "W", "i", "CR", "LF", "1", "CR", "LF", "k", "CR", "LF",
                "0", "CR", "LF", "CR", "LF">>,
     payload |-> <<"W", "i", "k">>]

\* neither Content-Length nor chunked encoding
RespPlain ==
    [kind |-> "plain",
     head |-> StatusOK \o CRLF \o CRLF,
     body |-> <<"a", "b">>,
     payload |-> <<"a", "b">>]

\* a redirect, with a header that has no dedicated field
RespRedirect ==
    [kind |-> "redirect",
     head |-> StatusFound \o CRLF \o HdrLocation \o CRLF \o HdrXId \o CRLF \o CRLF,
     body |-> <<>>,
     payload |-> <<>>]

HdrContentLength0 == <<"C", "o", "n", "t", "e", "n", "t", "-", "L", "e", "n", "g", "t", "h", ":", " ", "0">>

\* Content-Length: 0 and no body
RespEmpty ==
    [kind |-> "empty",
     head |-> StatusOK \o CRLF \o HdrContentLength0 \o CRLF \o CRLF,
     body |-> <<>>,
     payload |-> <<>>]

\* chunk framing and a stray Content-Length: 3 beside it
RespChunkedLength ==
    [kind |-> "chunked+length",
     head |-> StatusOK \o CRLF \o HdrChunked \o CRLF \o HdrContentLength3 \o CRLF \o CRLF,
     body |-> <<"2", "CR", "LF", "W", "i", "CR", "LF", "1", "CR", "LF", "k", "CR", "LF",
                "0", "CR", "LF", "CR", "LF">>,
     payload |-> <<"W", "i", "k">>]

\* one chunk whose payload is as long as the receive buffer
LongPayload == [i \in 1..BUF_SIZE |-> "x"]

RespChunkedLong ==
    [kind |-> "chunked-long",
     head |-> StatusOK \o CRLF \o HdrChunked \o CRLF \o CRLF,
     body |-> <<HexLower[(BUF_SIZE \div 16) + 1], HexLower[(BUF_SIZE % 16) + 1]>> \o CRLF
                 \o LongPayload \o CRLF \o <<"0">> \o CRLF \o CRLF,
     payload |-> LongPayload]

Responses == {RespLength, RespChunked, RespPlain, RespRedirect,
              RespEmpty, RespChunkedLength, RespChunkedLong}

RECURSIVE UpperSeq(_)
UpperSeq(s) ==
    IF s = <<>> THEN <<>>
    ELSE <<IF \E i \in 1..26 : LowerLetters[i] = Head(s)
           THEN UpperLetters[CHOOSE i \in 1..26 : LowerLetters[i] = Head(s)]
           ELSE Head(s)>> \o UpperSeq(Tail(s))

\* a header line with its name, the bytes before the first colon, spelled in
\* lower or in upper case; the status line has no name and is left alone
Respell(line, case) ==
    LET colon == strchr(line, ":")
        name == SubSeq(line, 1, colon - 1)
    IN  IF colon = 0 \/ HasPrefix(line, <<"H", "T", "T", "P", "/">>) THEN line
        ELSE (IF case = "lower" THEN LowerSeq(name) ELSE UpperSeq(name))
                 \o Drop(line, colon - 1)

(***************************************************************************)
(* State                                                                   *)
(***************************************************************************)
VARIABLES
    pc,         \* where the caller / execute / readHeaders / read stands
    request,    \* the HTTPRequest: [maxRedirects]; read tells whether it was looked at
    response,   \* the HTTPResponse object (its fields), see NewResponse
    ret,        \* what execute returned: "none" (not yet), "null", "response"
    socket,     \* the transport of the current leg
    hdr,        \* readHeaders' locals: [lineBuf, complete, len, line, lineEnd]
    rd,         \* read's locals: [toRead, read, dst, size, adv]
    user,       \* the caller of read / readToString
    twin,       \* the same parse on the same lines: [lower, upper], two responses
                \* for header names spelled otherwise, and fresh, a response
                \* that starts each leg with every header-derived field cleared
    obs         \* what an observer of the run has seen so far

vars == <<pc, request, response, ret, socket, hdr, rd, user, twin, obs>>

\* new HTTPResponse(): the fields' initial values
NewResponse ==
    [socketSet |-> FALSE,
     headers |-> {},
     statusCode |-> 0, contentLength |-> 0,
     contentType |-> <<>>, location |-> <<>>,
     isChunked |-> FALSE, isGzip |-> FALSE, isComplete |-> FALSE,
     isRedirect |-> FALSE, isStreaming |-> FALSE,
     redirectCount |-> 0,
     buf |-> <<>>,              \* <<>> is nullptr, else the bytes up to the NUL
     bufPtr |-> 0,              \* offset of the reading pointer into buf
     bodyRead |-> 0, bufRemaining |-> 0, chunkRemaining |-> 0]

NoSocket == [open |-> FALSE, wire |-> <<>>, pos |-> 0, eof |-> FALSE,
             split |-> FALSE, resp |-> RespPlain]

NoRead == [toRead |-> 0, read |-> 0, dst |-> <<>>, size |-> <<>>, adv |-> 0]

NoHdr == [lineBuf |-> <<>>, complete |-> FALSE, len |-> 0, line |-> 0, lineEnd |-> 0]

NoObs == [legs |-> 0,            \* legs started (transports opened)
          written |-> FALSE,     \* the request of this leg was written in full
          shortWrite |-> FALSE,  \* the transport accepted fewer bytes than asked
          legRead |-> FALSE,     \* a transport read happened on this leg
          hdrParsed |-> FALSE,   \* readHeaders ran on this leg
          truncated |-> FALSE,   \* the peer closed before sending everything
          twoOpen |-> FALSE,     \* a transport was opened while one was open
          headEnd |-> 0,         \* bytes of the leg that readHeaders took for the head
          early |-> FALSE,       \* the last read call returned at once, at its head
          callReads |-> 0]       \* transport reads within the current read call

Init ==
    /\ pc = "start"
    /\ request = [read |-> FALSE, maxRedirects |-> 0]
    /\ response = NewResponse
    /\ ret = "none"
    /\ socket = NoSocket
    /\ hdr = NoHdr
    /\ rd = NoRead
    /\ user = [op |-> "none",     \* "read", "readToString", "closed"
               result |-> <<>>,   \* the bytes handed to the caller so far
               chunk |-> <<>>,    \* the bytes of the last read
               len |-> 0,         \* what the last read returned
               known |-> FALSE,   \* readToString took the contentLength branch
               direct |-> FALSE]  \* the caller has called read itself
    /\ twin = [lower |-> NewResponse, upper |-> NewResponse, fresh |-> NewResponse]
    /\ obs = NoObs

(***************************************************************************)
(* The transport (TCPSocket / TLSSocket), seen from the client             *)
(***************************************************************************)
\* what one socket->read(dst, BUF_SIZE) may return: any non-empty prefix of the
\* bytes still to come, at most BUF_SIZE of them; 0 once the peer has closed,
\* which it may do before it has sent everything
FillSizes(sock) ==
    LET most == Min(BUF_SIZE, Len(sock.wire) - sock.pos)
    IN  IF sock.eof \/ sock.pos = Len(sock.wire) THEN {0}
        ELSE IF ~sock.split THEN {most}
        ELSE IF sock.pos = 0 THEN 0..most
        ELSE 0..Min(MaxShortFill, most) \cup {most}

\* what socket->poll() may say when it is asked after a fill of n bytes: it is
\* asked only after a full buffer
PollZero(n) == IF n = BUF_SIZE THEN BOOLEAN ELSE {FALSE}

Fill(wire, sock, n) == SubSeq(wire, sock.pos + 1, sock.pos + n)

TransportRead(sock, n) == [sock EXCEPT !.pos = @ + n, !.eof = @ \/ n = 0]

ObserveRead(o, sock, n) ==
    [o EXCEPT !.legRead = TRUE,
              !.callReads = Min(@ + 1, 2),
              !.truncated = @ \/ (n = 0 /\ sock.pos < Len(sock.wire))]

\* HTTPResponse::close(): releases the transport and the buffer
close(s) == [s EXCEPT !.socketSet = FALSE, !.buf = <<>>, !.bufPtr = 0]

(***************************************************************************)
(* HTTPClient::execute / executeImpl                                       *)
(***************************************************************************)
Execute ==
    /\ pc = "start"
    /\ response' = NewResponse
    /\ pc' = "executeImpl"
    /\ UNCHANGED <<request, ret, socket, hdr, rd, user, twin, obs>>

\* the socket is created and opened; the server picks what it will answer
ExecuteImplOpen ==
    /\ pc = "executeImpl"
    /\ obs.legs < MaxLegs
    /\ \E resp \in Responses :
          socket' = [open |-> TRUE,
                     wire |-> resp.head \o resp.body,
                     pos |-> 0, eof |-> FALSE, split |-> obs.legs < SplitLegs,
                     resp |-> resp]
    /\ response' = [response EXCEPT !.socketSet = TRUE]
    /\ twin' = [lower |-> [twin.lower EXCEPT !.socketSet = TRUE],
                upper |-> [twin.upper EXCEPT !.socketSet = TRUE],
                fresh |-> [twin.fresh EXCEPT !.socketSet = TRUE]]
    /\ obs' = [obs EXCEPT !.legs = @ + 1, !.written = FALSE, !.legRead = FALSE,
                          !.hdrParsed = FALSE, !.truncated = FALSE, !.headEnd = 0,
                          !.twoOpen = @ \/ socket.open]
    /\ pc' = "write"
    /\ UNCHANGED <<request, ret, hdr, rd, user>>

\* a slip: only a write that accepted nothing is taken for a failure
WriteFailedOnlyZero(len, size) == len = 0 /\ size # 0

\* len != data.size()
WriteFailed(len, size) == len # size

\* the request is serialized and written; a short write ends the call
ExecuteImplWrite ==
    /\ pc = "write"
    /\ \E len \in 0..ReqLen :
          IF WriteFailed(len, ReqLen)
          THEN /\ response' = close(response)
               /\ socket' = [socket EXCEPT !.open = FALSE]
               /\ ret' = "null"
               /\ pc' = "returned"
               /\ obs' = [obs EXCEPT !.shortWrite = TRUE]
          ELSE /\ pc' = "readHeaders"
               /\ obs' = [obs EXCEPT !.written = TRUE, !.shortWrite = len # ReqLen]
               /\ UNCHANGED <<response, socket, ret>>
    /\ UNCHANGED <<request, hdr, rd, user, twin>>

\* a slip: the limit is compared with <=, one redirect too many is followed
RedirectAllowedOffByOne(maxRedirects, redirectCount) ==
    maxRedirects < 0 \/ redirectCount <= maxRedirects

\* redirectCount < maxRedirects, with unlimited redirects below 0
RedirectAllowed(maxRedirects, redirectCount) ==
    maxRedirects < 0 \/ redirectCount < maxRedirects

\* the request is a constant of the call; the only field the model reads is
\* maxRedirects, and its value is fixed when executeImpl first looks at it
MaxRedirectsValues == -1..MaxRedirectsBound

RequestRead(req) ==
    IF req.read THEN {req} ELSE [read : {TRUE}, maxRedirects : MaxRedirectsValues]

\* after readHeaders: follow the redirect on a new leg, or return the response
ExecuteImplRedirect ==
    /\ pc = "redirect"
    /\ \E req \in (IF response.isRedirect THEN RequestRead(request) ELSE {request}) :
        /\ request' = req
        /\ IF response.isRedirect /\ RedirectAllowed(req.maxRedirects, response.redirectCount)
           THEN /\ response' = close([response EXCEPT !.redirectCount = @ + 1])
                /\ twin' = [lower |-> close([twin.lower EXCEPT !.redirectCount = @ + 1]),
                            upper |-> close([twin.upper EXCEPT !.redirectCount = @ + 1]),
                            fresh |-> close([twin.fresh EXCEPT !.redirectCount = @ + 1])]
                /\ socket' = [socket EXCEPT !.open = FALSE]
                /\ pc' = "executeImpl"
                /\ ret' = ret
           ELSE /\ pc' = "returned"
                /\ ret' = "response"
                /\ UNCHANGED <<response, twin, socket>>
    /\ UNCHANGED <<hdr, rd, user, obs>>

(***************************************************************************)
(* HTTPResponse::readRaw and readHeaders                                   *)
(***************************************************************************)
\* one transport read into the buffer; data is what the transport returned.
\* buf holds the bytes read and the NUL behind them: what lies behind the NUL is
\* left over from earlier fills (or from malloc) and is not tracked
readRaw(s, data) ==
    [s EXCEPT !.bodyRead = @ + Len(data),
              !.buf = IF data = <<>> THEN <<"NUL">> \o Tail(@) ELSE data \o <<"NUL">>]

\* the C string that starts at index i of the buffer: the bytes up to the
\* first NUL
CStr(buf, i) == SubSeq(buf, i, FindChar(buf, "NUL", i) - 1)

NameContentType == <<"c", "o", "n", "t", "e", "n", "t", "-", "t", "y", "p", "e", ":">>

NameContentLength == <<"c", "o", "n", "t", "e", "n", "t", "-", "l", "e", "n", "g", "t", "h", ":">>

NameTransferEncoding == <<"t", "r", "a", "n", "s", "f", "e", "r", "-", "e", "n", "c", "o", "d", "i", "n", "g", ":">>

NameLocation == <<"l", "o", "c", "a", "t", "i", "o", "n", ":">>

\* a line with no dedicated field: name (lower-cased) and value go to headers
genericHeader(s, header) ==
    LET colon == strchr(header, ":")
    IN  IF colon = 0 THEN s
        ELSE LET name == LowerSeq(SubSeq(header, 1, colon - 1))
                 value == SkipSpaces(Drop(header, colon))
             IN  [s EXCEPT !.headers = {p \in @ : p[1] # name} \cup {<<name, value>>}]

\* one complete header line (the status line included) is parsed
parseLine(s, lineBuf) ==
    LET ctype == readHeader(lineBuf, NameContentType)
        clen == readHeader(lineBuf, NameContentLength)
        tenc == readHeader(lineBuf, NameTransferEncoding)
        loc == readHeader(lineBuf, NameLocation)
    IN  IF HasPrefix(lineBuf, <<"H", "T", "T", "P", "/">>)
        THEN [s EXCEPT !.statusCode = strtol(Drop(lineBuf, 9), 10).val % 65536]
        ELSE IF ctype.ok THEN [s EXCEPT !.contentType = ctype.rest]
        ELSE IF clen.ok
        THEN LET n == strtol(clen.rest, 10).val
             IN  [s EXCEPT !.contentLength = n,
                           !.isComplete = IF n = 0 THEN TRUE ELSE @]
        ELSE IF tenc.ok
        THEN [s EXCEPT !.isChunked = HasPrefix(tenc.rest, <<"c", "h", "u", "n", "k", "e", "d">>)]
        ELSE IF loc.ok THEN [s EXCEPT !.isRedirect = TRUE, !.location = loc.rest]
        ELSE genericHeader(s, lineBuf)

\* the blank line was found at offset lineEnd of a fill of len bytes: when body
\* bytes follow it in the buffer the reading pointer moves to them
headersComplete(s, lineEnd, len, pollZero) ==
    IF lineEnd + 2 < len
    THEN [s EXCEPT !.bufPtr = lineEnd + 2,
                   !.bufRemaining = len - (lineEnd + 2),
                   !.bodyRead = len - (lineEnd + 2),
                   !.isStreaming = /\ ~s.isComplete
                                   /\ s.contentLength = 0
                                   /\ (len < BUF_SIZE \/ pollZero)]
    ELSE s

\* lineEnd = strstr(line, "\r\n"): the offset of the next CR LF in the buffer,
\* -1 when the rest of the fill holds none
nextLineEnd(buf, line) ==
    LET e == strstrCRLF(CStr(buf, line + 1))
    IN  IF e = 0 THEN -1 ELSE line + e - 1

\* lineBuf += std::string(line, lineEnd), or up to buf + len without a line end
lineText(buf, h, lineEnd) ==
    h.lineBuf \o SubSeq(buf, h.line + 1, IF lineEnd < 0 THEN h.len ELSE lineEnd)

\* the fields after one turn of the inner loop of readHeaders, where the line
\* lineBuf ends at lineEnd: nothing without a line end, the end of the head at
\* an empty line, else the line is parsed
scanLine(s, lineBuf, lineEnd, len, pollZero) ==
    IF lineEnd < 0 THEN s
    ELSE IF lineBuf = <<>> THEN headersComplete(s, lineEnd, len, pollZero)
    ELSE parseLine(s, lineBuf)

\* the locals after that turn
scanLocals(h, lineBuf, lineEnd) ==
    IF lineEnd < 0 THEN [h EXCEPT !.lineBuf = lineBuf, !.lineEnd = lineEnd]
    ELSE IF lineBuf = <<>> THEN [h EXCEPT !.complete = TRUE, !.lineEnd = lineEnd]
    ELSE [h EXCEPT !.lineBuf = <<>>, !.line = lineEnd + 2, !.lineEnd = lineEnd]

\* malloc(BUF_SIZE + 1): the bytes are not initialized
FreshBuffer == <<"?">>

\* the start of readHeaders: the buffer is allocated, the fields are reset
resetForHeaders(s) ==
    [s EXCEPT !.buf = IF @ = <<>> THEN FreshBuffer ELSE @,
              !.bufPtr = IF s.buf = <<>> THEN 0 ELSE @,
              !.statusCode = 0, !.contentLength = 0,
              !.isChunked = FALSE, !.isGzip = FALSE, !.isComplete = FALSE,
              !.isRedirect = FALSE, !.isStreaming = FALSE]

\* the same start with the fields cleared that readHeaders leaves alone
clearedForHeaders(s) ==
    [resetForHeaders(s) EXCEPT !.contentType = <<>>, !.location = <<>>, !.headers = {}]

ReadHeadersBegin ==
    /\ pc = "readHeaders"
    /\ response' = resetForHeaders(response)
    /\ hdr' = NoHdr
    /\ twin' = [lower |-> resetForHeaders(twin.lower),
                upper |-> resetForHeaders(twin.upper),
                fresh |-> clearedForHeaders(twin.fresh)]
    /\ obs' = [obs EXCEPT !.hdrParsed = TRUE]
    /\ pc' = "hdr_fill"
    /\ UNCHANGED <<request, ret, socket, rd, user>>

\* the head of the outer loop of readHeaders: len = readRaw(buf); line = buf
ReadHeadersFill ==
    /\ pc = "hdr_fill"
    /\ \E n \in FillSizes(socket) :
          /\ response' = readRaw(response, Fill(socket.wire, socket, n))
          /\ twin' = [lower |-> readRaw(twin.lower, Fill(socket.wire, socket, n)),
                      upper |-> readRaw(twin.upper, Fill(socket.wire, socket, n)),
                      fresh |-> readRaw(twin.fresh, Fill(socket.wire, socket, n))]
          /\ hdr' = [hdr EXCEPT !.len = n, !.line = 0]
          /\ socket' = TransportRead(socket, n)
          /\ obs' = ObserveRead(obs, socket, n)
    /\ pc' = "hdr_scan"
    /\ UNCHANGED <<request, ret, rd, user>>

\* one turn of the inner loop; when it is left, the test of the outer loop
ReadHeadersLine ==
    /\ pc = "hdr_scan"
    /\ \E pollZero \in PollZero(hdr.len) :
       \E lineEnd \in {nextLineEnd(response.buf, hdr.line)} :
       \E lineBuf \in {lineText(response.buf, hdr, lineEnd)} :
       \E lower \in {Respell(lineBuf, "lower")} :
       \E upper \in {Respell(lineBuf, "upper")} :
          /\ response' = scanLine(response, lineBuf, lineEnd, hdr.len, pollZero)
          /\ hdr' = scanLocals(hdr, lineBuf, lineEnd)
          /\ twin' = [lower |-> scanLine(twin.lower, lower, lineEnd, hdr.len, pollZero),
                      upper |-> scanLine(twin.upper, upper, lineEnd, hdr.len, pollZero),
                      fresh |-> scanLine(twin.fresh, lineBuf, lineEnd, hdr.len, pollZero)]
          /\ obs' = [obs EXCEPT !.headEnd =
                        IF lineEnd >= 0 /\ lineBuf = <<>>
                        THEN socket.pos - hdr.len + lineEnd + 2 ELSE 0]
          /\ pc' = IF lineEnd < 0 THEN "hdr_fill"
                   ELSE IF lineBuf = <<>> THEN "redirect"
                   ELSE "hdr_scan"
    /\ UNCHANGED <<request, ret, socket, rd, user>>

(***************************************************************************)
(* HTTPResponse::skip                                                      *)
(***************************************************************************)
\* the part of len that the buffer does not hold
skipRest(s, len) == IF ULess(s.bufRemaining, len) THEN len - s.bufRemaining ELSE 0

\* a slip: advancing the cursor clears the completion flag
skipAdvanceClearing(s, len) ==
    LET n == IF ULess(s.bufRemaining, len) THEN s.bufRemaining ELSE len
    IN  [s EXCEPT !.bufRemaining = @ - n, !.bufPtr = @ + n, !.isComplete = FALSE]

\* the fields after "bufRemaining -= len; bufPtr += len"
skipAdvance(s, len) ==
    LET n == IF ULess(s.bufRemaining, len) THEN s.bufRemaining ELSE len
    IN  [s EXCEPT !.bufRemaining = @ - n, !.bufPtr = @ + n]

\* the body is known to be over: nothing more is read
skipComplete(s) ==
    \/ s.isComplete
    \/ s.contentLength # 0 /\ s.bodyRead >= s.contentLength /\ s.chunkRemaining = 0

\* whether skip(len, dontRead) calls readRaw
skipReads(s, len, dontRead) ==
    LET a == skipAdvance(s, len)
    IN  a.bufRemaining = 0 /\ ~dontRead /\ ~skipComplete(a)

\* no content length set and the fresh fill is not a full buffer
skipStreaming(s) == s.contentLength = 0 /\ ULess(s.bufRemaining, BUF_SIZE)

\* skip(len, dontRead); data is what the transport returns if it is read.
\* The result: the fields afterwards and what skip returned
skip(s, len, dontRead, data) ==
    LET rest == skipRest(s, len)
        a == skipAdvance(s, len)
    IN  IF a.bufRemaining = 0 /\ ~dontRead
        THEN IF skipComplete(a)
             THEN [s |-> [a EXCEPT !.isComplete = TRUE], ok |-> FALSE]
             ELSE LET b == [readRaw(a, data) EXCEPT !.bufRemaining = Len(data)]
                  IN  IF b.bufRemaining = 0
                      THEN [s |-> b, ok |-> FALSE]
                      ELSE LET c == [b EXCEPT !.bufPtr = rest,
                                              !.bufRemaining = @ - rest]
                           IN  [s |-> [c EXCEPT !.isStreaming =
                                            IF skipStreaming(c) THEN TRUE ELSE @],
                                ok |-> TRUE]
        ELSE [s |-> a, ok |-> TRUE]

\* the sizes the transport read inside skip(len, dontRead) may return; one
\* dummy size when skip does not read
SkipFills(len, dontRead) ==
    IF skipReads(response, len, dontRead) THEN FillSizes(socket) ELSE {0}

SocketAfterSkip(len, dontRead, n) ==
    IF skipReads(response, len, dontRead) THEN TransportRead(socket, n) ELSE socket

ObsAfterSkip(len, dontRead, n) ==
    IF skipReads(response, len, dontRead) THEN ObserveRead(obs, socket, n) ELSE obs

(***************************************************************************)
(* HTTPResponse::read                                                      *)
(***************************************************************************)
\* the reading pointer is inside the part of the buffer the model tracks
InBuffer(s) == s.bufPtr < Len(s.buf)

\* strncpy(dst, src, count): count bytes, NUL-padded when src is shorter
strncpy(src, count) ==
    SubSeq(src, 1, Min(count, Len(src)))
        \o [i \in 1..(count - Min(count, Len(src))) |-> "NUL"]

\* a slip: a complete response with bytes left in the buffer is read on
ReadEarlyReturnWhenEmpty(s) == s.isComplete /\ s.bufRemaining = 0

\* if (isComplete) { dst[0] = '\0'; return 0; }
ReadEarlyReturn(s) == s.isComplete

\* read returns len to its caller: readToString goes on, a direct caller gets
\* the bytes
ReturnFromRead(len, dst) ==
    /\ pc' = IF user.op = "readToString" THEN "rts_resume" ELSE "returned"
    /\ user' = [user EXCEPT !.len = len,
                            !.chunk = IF user.op = "readToString" THEN dst ELSE <<>>,
                            !.result = IF user.op = "readToString" THEN @ ELSE @ \o dst,
                            !.op = IF user.op = "readToString" THEN @ ELSE "none"]

\* a caller that holds the response calls read(dst, toRead)
CallRead ==
    /\ pc = "returned" /\ ret = "response" /\ user.op = "none"
    /\ \E n \in 0..MaxToRead :
          rd' = [NoRead EXCEPT !.toRead = n]
    /\ user' = [user EXCEPT !.op = "read", !.direct = TRUE]
    /\ pc' = "read"
    /\ obs' = [obs EXCEPT !.callReads = 0, !.early = FALSE]
    /\ UNCHANGED <<request, response, ret, socket, hdr, twin>>

\* the head of read: a complete response returns 0 at once
ReadEnter ==
    /\ pc = "read"
    /\ IF ReadEarlyReturn(response)
       THEN /\ ReturnFromRead(0, <<>>)
            /\ rd' = NoRead
            /\ obs' = [obs EXCEPT !.early = TRUE]
       ELSE /\ pc' = "read_loop"
            /\ UNCHANGED <<user, rd, obs>>
    /\ UNCHANGED <<request, response, ret, socket, hdr, twin>>

\* while (toRead) { skip(0); ... : make sure the buffer holds data
ReadLoop ==
    /\ pc = "read_loop"
    /\ IF rd.toRead = 0
       THEN /\ pc' = "read_end"
            /\ UNCHANGED <<response, socket, obs>>
       ELSE \E n \in SkipFills(0, FALSE) :
              /\ response' = skip(response, 0, FALSE, Fill(socket.wire, socket, n)).s
              /\ socket' = SocketAfterSkip(0, FALSE, n)
              /\ obs' = ObsAfterSkip(0, FALSE, n)
              /\ pc' = "read_chunk"
    /\ UNCHANGED <<request, ret, hdr, rd, user, twin>>

\* the start of a unit: the chunk-size line in chunked mode, the content
\* length otherwise
ReadChunkSize ==
    /\ pc = "read_chunk"
    /\ IF response.isChunked /\ response.chunkRemaining = 0
       THEN IF ~InBuffer(response)
            THEN pc' = "wild" /\ UNCHANGED <<response, rd>>
            ELSE \E str \in {CStr(response.buf, response.bufPtr + 1)} :
                 \E num \in {strtol(str, 16)} :
                     IF response.buf[response.bufPtr + 1] = "0"
                     THEN /\ response' = [response EXCEPT !.isComplete = TRUE]
                          /\ pc' = "read_end"
                          /\ rd' = rd
                     ELSE IF strchr(str, "CR") = 0
                     THEN /\ rd' = [rd EXCEPT !.size =
                                       SubSeq(response.buf, response.bufPtr + 1,
                                              response.bufPtr + response.bufRemaining)]
                          /\ pc' = "read_size_split"
                          /\ response' = response
                     ELSE /\ response' = [response EXCEPT !.chunkRemaining = num.val]
                          /\ rd' = [rd EXCEPT !.adv = num.end + 2]
                          /\ pc' = "read_skip_size"
       ELSE /\ response' = [response EXCEPT !.chunkRemaining =
                               IF response.contentLength # 0 /\ @ = 0
                               THEN response.contentLength ELSE @]
            /\ pc' = "read_copy"
            /\ rd' = rd
    /\ UNCHANGED <<request, ret, socket, hdr, user, twin, obs>>

\* the chunk-size line ran into the end of the buffer: the rest of the buffer
\* is kept, the next fill is read and the line is completed from it
ReadSizeSplit ==
    /\ pc = "read_size_split"
    /\ \E n \in SkipFills(response.bufRemaining, FALSE) :
          \E res \in {skip(response, response.bufRemaining, FALSE,
                            Fill(socket.wire, socket, n))} :
          \E str \in {IF InBuffer(res.s) THEN CStr(res.s.buf, res.s.bufPtr + 1) ELSE <<>>} :
          \E endPtr \in {strchr(str, "CR")} :
          \E size \in {rd.size \o SubSeq(str, 1, endPtr - 1)} :
          \E num \in {strtol(size, 16)} :
              /\ socket' = SocketAfterSkip(response.bufRemaining, FALSE, n)
              /\ obs' = ObsAfterSkip(response.bufRemaining, FALSE, n)
              /\ IF ~res.ok
                 THEN response' = res.s /\ pc' = "read_end" /\ rd' = rd
                 ELSE IF ~InBuffer(res.s)
                 THEN response' = res.s /\ pc' = "wild" /\ rd' = rd
                 ELSE IF endPtr = 0
                 THEN response' = res.s /\ pc' = "read_end" /\ rd' = rd
                 ELSE IF ~num.conv
                 THEN response' = res.s /\ pc' = "terminate" /\ rd' = rd
                 ELSE /\ response' = [res.s EXCEPT !.chunkRemaining = num.val]
                      /\ rd' = [rd EXCEPT !.size = size, !.adv = (endPtr - 1) + 2]
                      /\ pc' = "read_skip_size"
    /\ UNCHANGED <<request, ret, hdr, user, twin>>

\* skip the size and its CR LF
ReadSkipSize ==
    /\ pc = "read_skip_size"
    /\ \E n \in SkipFills(rd.adv, FALSE) :
          \E res \in {skip(response, rd.adv, FALSE, Fill(socket.wire, socket, n))} :
              /\ response' = res.s
              /\ socket' = SocketAfterSkip(rd.adv, FALSE, n)
              /\ obs' = ObsAfterSkip(rd.adv, FALSE, n)
              /\ pc' = IF res.ok THEN "read_copy" ELSE "read_end"
    /\ UNCHANGED <<request, ret, hdr, rd, user, twin>>

\* one turn of the copy loop: copy what the buffer holds of the unit, eat it
ReadCopy ==
    /\ pc = "read_copy"
    /\ IF response.chunkRemaining # 0 /\ rd.toRead # 0
       THEN IF ~InBuffer(response)
            THEN pc' = "wild" /\ UNCHANGED <<response, rd, socket, obs>>
            ELSE \E count \in {UMin(rd.toRead, UMin(response.bufRemaining, response.chunkRemaining))} :
                 \E copied \in {strncpy(CStr(response.buf, response.bufPtr + 1), count)} :
                 \E s1 \in {[response EXCEPT !.chunkRemaining = @ - count]} :
                 \E used \in {skipReads(s1, count, FALSE)} :
                 \E n \in (IF used THEN FillSizes(socket) ELSE {0}) :
                 \E res \in {skip(s1, count, FALSE, Fill(socket.wire, socket, n))} :
                           /\ response' = res.s
                           /\ socket' = IF used THEN TransportRead(socket, n) ELSE socket
                           /\ obs' = IF used THEN ObserveRead(obs, socket, n) ELSE obs
                           /\ rd' = [rd EXCEPT !.dst = @ \o copied,
                                               !.read = @ + count,
                                               !.toRead = IF res.ok THEN @ - count ELSE 0]
                           /\ pc' = IF res.ok THEN "read_crlf" ELSE "read_yield"
       ELSE /\ pc' = "read_yield"
            /\ UNCHANGED <<response, rd, socket, obs>>
    /\ UNCHANGED <<request, ret, hdr, user, twin>>

\* after a chunk's last byte: skip the CR LF behind it
ReadSkipCRLF ==
    /\ pc = "read_crlf"
    /\ IF response.isChunked /\ response.chunkRemaining = 0
       THEN \E n \in SkipFills(2, response.isStreaming) :
              \E res \in {skip(response, 2, response.isStreaming,
                               Fill(socket.wire, socket, n))} :
                  /\ response' = res.s
                  /\ socket' = SocketAfterSkip(2, response.isStreaming, n)
                  /\ obs' = ObsAfterSkip(2, response.isStreaming, n)
                  /\ rd' = [rd EXCEPT !.toRead = IF res.ok THEN @ ELSE 0]
       ELSE UNCHANGED <<response, socket, obs, rd>>
    /\ pc' = "read_copy"
    /\ UNCHANGED <<request, ret, hdr, user, twin>>

\* a stream with an empty buffer yields what it has
ReadYield ==
    /\ pc = "read_yield"
    /\ pc' = IF response.isStreaming /\ response.bufRemaining = 0
             THEN "read_end" ELSE "read_loop"
    /\ UNCHANGED <<request, response, ret, socket, hdr, rd, user, twin, obs>>

\* the body is complete when the content length is used up
readComplete(s) == ~s.isChunked /\ s.contentLength # 0 /\ s.chunkRemaining = 0

\* dstStart[read] = '\0' with dst the scratch buffer of readToString's
\* unknown-length loop, char buffer[BUF_SIZE]: the index is past its last byte
NulOutsideScratch(u, read) == u.op = "readToString" /\ ~u.known /\ read >= BUF_SIZE

\* the tail of read.  A NUL stored outside the scratch buffer is undefined
\* behaviour: the call may return as if nothing had happened, or not
ReadEnd ==
    /\ pc = "read_end"
    /\ response' = [response EXCEPT !.isComplete = IF readComplete(response) THEN TRUE ELSE @]
    /\ \/ ReturnFromRead(rd.read, rd.dst)
       \/ /\ NulOutsideScratch(user, rd.read)
          /\ pc' = "wild"
          /\ user' = user
    /\ rd' = NoRead
    /\ UNCHANGED <<request, ret, socket, hdr, twin, obs>>

(***************************************************************************)
(* HTTPResponse::readToString                                              *)
(***************************************************************************)
\* std::string(buffer): the bytes before the first NUL
RECURSIVE UpToNul(_)
UpToNul(s) ==
    IF s = <<>> \/ Head(s) = "NUL" THEN <<>> ELSE <<Head(s)>> \o UpToNul(Tail(s))

\* a caller that has not read from the response calls readToString.  The
\* first call of read: contentLength bytes into the result string when the
\* length is known, BUF_SIZE bytes into the scratch buffer otherwise
CallReadToString ==
    /\ pc = "returned" /\ ret = "response" /\ user.op = "none" /\ ~user.direct
    /\ user' = [user EXCEPT !.op = "readToString",
                            !.result = [i \in 1..response.contentLength |-> "NUL"],
                            !.known = response.contentLength # 0]
    /\ rd' = [NoRead EXCEPT !.toRead = IF response.contentLength # 0
                                       THEN response.contentLength ELSE BUF_SIZE]
    /\ pc' = "read"
    /\ obs' = [obs EXCEPT !.callReads = 0, !.early = FALSE]
    /\ UNCHANGED <<request, response, ret, socket, hdr, twin>>

\* read has returned to readToString
ReadToStringResume ==
    /\ pc = "rts_resume"
    /\ IF user.known
       THEN /\ user' = [user EXCEPT !.op = "closed",
                                    !.result = user.chunk \o Drop(@, Len(user.chunk))]
            /\ response' = close(response)
            /\ socket' = [socket EXCEPT !.open = FALSE]
            /\ pc' = "closed"
            /\ UNCHANGED <<rd, obs>>
       ELSE IF user.len # 0
       THEN /\ user' = [user EXCEPT !.result = @ \o UpToNul(user.chunk)]
            /\ rd' = [NoRead EXCEPT !.toRead = BUF_SIZE]
            /\ pc' = "read"
            /\ obs' = [obs EXCEPT !.callReads = 0, !.early = FALSE]
            /\ UNCHANGED <<response, socket>>
       ELSE /\ user' = [user EXCEPT !.op = "closed",
                                    !.result = @ \o UpToNul(user.chunk)]
            /\ response' = close(response)
            /\ socket' = [socket EXCEPT !.open = FALSE]
            /\ pc' = "closed"
            /\ UNCHANGED <<rd, obs>>
    /\ UNCHANGED <<request, ret, hdr, twin>>

Next ==
    \/ Execute
    \/ ExecuteImplOpen
    \/ ExecuteImplWrite
    \/ ReadHeadersBegin
    \/ ReadHeadersFill
    \/ ReadHeadersLine
    \/ ExecuteImplRedirect
    \/ CallRead
    \/ ReadEnter
    \/ ReadLoop
    \/ ReadChunkSize
    \/ ReadSizeSplit
    \/ ReadSkipSize
    \/ ReadCopy
    \/ ReadSkipCRLF
    \/ ReadYield
    \/ ReadEnd
    \/ CallReadToString
    \/ ReadToStringResume

Spec == Init /\ [][Next]_vars

\* the steps of readHeaders, and the steps of read once it is called
HeaderSteps == ReadHeadersBegin \/ ReadHeadersFill \/ ReadHeadersLine

ReadSteps ==
    \/ ReadEnter \/ ReadLoop \/ ReadChunkSize \/ ReadSizeSplit \/ ReadSkipSize
    \/ ReadCopy \/ ReadSkipCRLF \/ ReadYield \/ ReadEnd

\* the program is one synchronous thread and the transport's read returns:
\* a call of readHeaders, or of read, that can take a step takes one
FairSpec == Spec /\ WF_vars(HeaderSteps) /\ WF_vars(ReadSteps)

\* the same, for a call of readHeaders alone and for a call of read alone
FairHeaders == Spec /\ WF_vars(HeaderSteps)

FairRead == Spec /\ WF_vars(ReadSteps)

(***************************************************************************)
(* Properties                                                              *)
(***************************************************************************)
\* readHeaders found the blank line where the head of the response ends
HeadTaken == obs.headEnd = Len(socket.resp.head)

\* readToString has returned
StringReturned == pc = "closed" /\ user.op = "closed"

\* C1: for a response that declares Content-Length: N and whose transport
\* delivers the N body bytes, readToString returns exactly those N bytes and
\* leaves isComplete set, however the transport cuts the stream into reads
C1_ContentLengthBody ==
    (/\ StringReturned
     /\ socket.resp.kind = "length" /\ user.known
     /\ HeadTaken /\ ~obs.truncated)
        => (user.result = socket.resp.payload /\ response.isComplete)

\* C2: for a well-formed chunked body readToString returns the chunk payloads
\* in order, however the transport cuts the stream into reads
C2_ChunkedBody ==
    (/\ StringReturned
     /\ socket.resp.kind = "chunked" /\ response.isChunked
     /\ HeadTaken /\ ~obs.truncated)
        => user.result = socket.resp.payload

\* the inner loop of readHeaders over a whole fill
RECURSIVE scanFill(_, _, _)
scanFill(s, h, pollZero) ==
    LET lineEnd == nextLineEnd(s.buf, h.line)
        lineBuf == lineText(s.buf, h, lineEnd)
        next == scanLine(s, lineBuf, lineEnd, h.len, pollZero)
    IN  IF lineEnd < 0 \/ lineBuf = <<>> THEN next
        ELSE scanFill(next, scanLocals(h, lineBuf, lineEnd), pollZero)

\* the response after readHeaders when the whole head arrives in one fill
OneFill(resp) ==
    scanFill(readRaw(resetForHeaders(NewResponse), resp.head),
             [NoHdr EXCEPT !.len = Len(resp.head)], FALSE)

\* the fields readHeaders fills in from the head
ParsedFields(s) ==
    [statusCode |-> s.statusCode, contentLength |-> s.contentLength,
     isChunked |-> s.isChunked, isRedirect |-> s.isRedirect,
     location |-> s.location, contentType |-> s.contentType, headers |-> s.headers]

\* C3: however the head is cut into reads, readHeaders ends with the same
\* statusCode, contentLength, isChunked, isRedirect, location, contentType and
\* headers as when the whole head arrives in one read (first leg: no field is
\* left over from an earlier leg)
C3_SplitIndependent ==
    (pc = "redirect" /\ obs.legs = 1)
        => ParsedFields(response) = ParsedFields(OneFill(socket.resp))

\* legs started so far, counted from redirectCount
LegsByCount ==
    response.redirectCount + (IF pc \in {"start", "executeImpl"} THEN 0 ELSE 1)

\* C4: a response parsed as a redirect is followed if and only if maxRedirects
\* is negative or redirectCount is below it; redirectCount grows by one with
\* each redirect followed and by nothing else, so that redirectCount + 1 legs
\* were started and never more than maxRedirects + 1; the response that
\* execute returns unfollowed is the one of the last leg
C4_RedirectLimit ==
    /\ [](/\ obs.legs = LegsByCount
          /\ (request.read /\ request.maxRedirects >= 0)
                => obs.legs <= request.maxRedirects + 1
          /\ (pc = "returned" /\ ret = "response" /\ response.isRedirect)
                => response.redirectCount = request.maxRedirects)
    /\ [][pc = "redirect" =>
            /\ (pc' = "executeImpl") =
                  (/\ response.isRedirect
                   /\ (\/ request'.maxRedirects < 0
                       \/ response.redirectCount < request'.maxRedirects))
            /\ pc' = "executeImpl" =>
                  /\ response'.redirectCount = response.redirectCount + 1
                  /\ ~socket'.open /\ ret' = "none"
            /\ pc' # "executeImpl" =>
                  /\ pc' = "returned" /\ ret' = "response"
                  /\ response' = response /\ socket' = socket]_vars
    /\ [][pc # "redirect" => response'.redirectCount = response.redirectCount
                               \/ pc = "start"]_vars

\* C4 witness: with maxRedirects = 1 one redirect was followed and the second
\* leg's redirect is returned unfollowed
C4_Witness ==
    /\ pc = "returned" /\ ret = "response"
    /\ request.read /\ request.maxRedirects = 1
    /\ response.isRedirect /\ response.redirectCount = 1 /\ obs.legs = 2

\* neither Content-Length nor chunked encoding, and the first transport read
\* of the leg, shorter than the buffer, carried the head and some body bytes
StreamingCase ==
    /\ socket.resp.kind = "plain"
    /\ response.contentLength = 0 /\ ~response.isChunked
    /\ hdr.complete /\ hdr.len = socket.pos
    /\ Len(socket.resp.head) < hdr.len /\ hdr.len < BUF_SIZE

\* C5: in that case the response is marked isStreaming after header parsing,
\* and a single read(dst, n) with n > 0 returns
C5_StreamingReadReturns ==
    /\ []((pc = "redirect" /\ StreamingCase) => response.isStreaming)
    /\ []((pc = "read" /\ user.op = "read" /\ rd.toRead > 0 /\ StreamingCase)
             => <>(pc = "returned"))

\* C6: when the transport's write accepts fewer bytes than the request has,
\* on whatever leg, the transport is closed, nothing is read from it and no
\* header is parsed on that leg, and execute has returned null: no leg follows
C6_ShortWrite ==
    obs.shortWrite =>
        /\ pc = "returned" /\ ret = "null"
        /\ ~socket.open /\ ~response.socketSet
        /\ ~obs.legRead /\ ~obs.hdrParsed

\* C6 witness: the write of the second leg, after a redirect, fell short
C6_Witness ==
    /\ obs.shortWrite /\ obs.legs = 2 /\ response.redirectCount = 1
    /\ pc = "returned" /\ ret = "null"

\* C7: a read call on a complete response returns 0 at once: no transport
\* read, and the response (cursor, remaining count, chunkRemaining, bodyRead
\* and all else) and the transport are as before
C7_CompleteReadIsNoOp ==
    [][(pc = "read" /\ response.isComplete) =>
          /\ pc' \in {"returned", "rts_resume"}
          /\ user'.len = 0 /\ user'.chunk = <<>> /\ user'.result = user.result
          /\ response' = response
          /\ socket' = socket
          /\ obs'.callReads = 0]_vars

\* C7 witness: a direct read on a complete response has returned 0, with
\* bytes still in the buffer
C7_Witness ==
    /\ pc = "returned" /\ obs.early /\ user.direct /\ user.len = 0
    /\ response.isComplete /\ response.bufRemaining > 0

\* readHeaders is running
InHeaders == pc \in {"hdr_fill", "hdr_scan"}

\* C8: when the transport is at its end before the blank line has come,
\* readHeaders ends
C8_HeadersEndAtEOF ==
    [](( /\ InHeaders
         /\ socket.eof /\ socket.pos < Len(socket.resp.head))
            => <>(~InHeaders))

\* read is running, past its head
InRead ==
    pc \in {"read_loop", "read_chunk", "read_size_split", "read_skip_size",
            "read_copy", "read_crlf", "read_yield", "read_end"}

\* read has left its loop for good: it returns, or the process has died
ReadOver == pc \in {"returned", "rts_resume", "closed", "wild", "terminate"}

\* C9: when a refill during a body read returns 0 bytes, the read call ends,
\* whatever the body mode
C9_ReadEndsAtEOF ==
    []((InRead /\ socket.eof /\ obs.callReads > 0) => <>ReadOver)

\* C10: header lines whose names are spelled in lower case, or in upper
\* case, parse to the same response as the lines as sent: the same dedicated
\* fields, and the same keys, in lower case, and values in headers
C10_NameCaseInsensitive ==
    /\ ParsedFields(twin.lower) = ParsedFields(response)
    /\ ParsedFields(twin.upper) = ParsedFields(response)
    /\ \A h \in response.headers : h[1] = LowerSeq(h[1])

\* C10 witness: a head whose names hold capitals was parsed, a dedicated field
\* and a key of headers came from such names
C10_Witness ==
    /\ pc = "redirect" /\ socket.resp.kind = "redirect"
    /\ response.isRedirect /\ response.location # <<>>
    /\ twin.upper.location = response.location
    /\ response.headers = {<<<<"x", "-", "i", "d">>, <<"7">>>>}

\* C11: for a response with chunk framing and a stray Content-Length, both
\* parsed, isComplete is set only where read meets the terminal chunk, the
\* size line that starts with 0: never by the count of bytes received
C11_ChunkFramingGoverns ==
    [][(/\ socket.resp.kind = "chunked+length" /\ HeadTaken
        /\ response.isChunked /\ response.contentLength # 0
        /\ ~response.isComplete /\ response'.isComplete)
          => (/\ pc = "read_chunk" /\ InBuffer(response)
              /\ response.buf[response.bufPtr + 1] = "0")]_vars

\* C12: in content-length mode (Content-Length: 3, not chunked), after any
\* sequence of read calls of any sizes, 0 included, at most 3 bytes were
\* delivered, and isComplete is set only when exactly 3 were
C12_LengthDelivered ==
    (/\ pc = "returned" /\ user.direct
     /\ socket.resp.kind = "length" /\ HeadTaken
     /\ response.contentLength = 3 /\ ~response.isChunked)
        => (/\ Len(user.result) <= 3
            /\ response.isComplete => Len(user.result) = 3)

\* C13: the read cursor's offset plus the remaining count never exceeds the
\* buffer's capacity, and the remaining count never wraps below zero
C13_CursorInBuffer ==
    /\ response.bufRemaining >= 0
    /\ response.bufPtr + response.bufRemaining <= BUF_SIZE

\* C14: in streaming mode, when a read call copies the last bytes of the
\* buffer and the chunk has bytes left, no transport read is made
C14_StreamingYieldsWithoutRead ==
    [][(/\ pc = "read_copy" /\ response.isStreaming
        /\ response.bufRemaining > 0
        /\ response.chunkRemaining > response.bufRemaining
        /\ rd'.read = rd.read + response.bufRemaining)
          => socket' = socket]_vars

\* C15: at the end of header parsing, a response whose head has
\* Content-Length: 0, or neither Content-Length nor chunked encoding, is
\* marked complete
C15_NoBodyIsComplete ==
    (/\ pc = "redirect" /\ HeadTaken
     /\ socket.resp.kind \in {"empty", "plain", "redirect"}
     /\ response.contentLength = 0 /\ ~response.isChunked)
        => response.isComplete

\* C16: isStreaming implies that no non-zero Content-Length was parsed and
\* that the response is not chunked
C16_StreamingMeansUnknownLength ==
    response.isStreaming => (response.contentLength = 0 /\ ~response.isChunked)

\* every header-derived field
HeaderFields(s) ==
    [parsed |-> ParsedFields(s),
     isGzip |-> s.isGzip, isComplete |-> s.isComplete, isStreaming |-> s.isStreaming]

\* C17: at the end of header parsing on any leg, every header-derived field
\* is what the lines of this leg alone give: nothing is left from earlier legs
C17_FieldsOfLastLegOnly ==
    pc = "redirect" => HeaderFields(response) = HeaderFields(twin.fresh)

\* C18: once isComplete is set, no step of read or skip clears it: only the
\* reset at the start of readHeaders does
C18_CompleteIsMonotonic ==
    [][(response.isComplete /\ ~response'.isComplete) => pc = "readHeaders"]_vars

\* C18 witness: a body was read to its end by two read calls, and read is
\* called again on the complete response
C18_Witness ==
    /\ pc = "read" /\ user.direct /\ response.isComplete
    /\ socket.resp.kind = "length" /\ user.result = socket.resp.payload

\* C19: no transport is opened while one is open, and on each leg a transport
\* read happens only after the whole request was written to the open transport
C19_OneTransportInOrder ==
    /\ ~obs.twoOpen
    /\ obs.legRead => (obs.written /\ ~obs.shortWrite)
    /\ obs.written => obs.legs >= 1
    /\ socket.open => response.socketSet

\* C19 witness: a redirect was followed and the second leg has been read
C19_Witness ==
    /\ obs.legs = 2 /\ response.redirectCount = 1
    /\ obs.written /\ obs.legRead /\ socket.open

\* C20: in readToString's unknown-length loop, the index at which read stores
\* its terminating NUL, the byte count it returns, is below BUF_SIZE
C20_NulInsideScratch ==
    (pc = "read_end" /\ user.op = "readToString" /\ ~user.known)
        => rd.read < BUF_SIZE
====
